---- MODULE Spec2Model ----
(***************************************************************************)
(* A model of the AI blog service: the multi-stage article generation of   *)
(* AiService.generateTextByUserDescription (streamed to a socket client),  *)
(* the Post store operations AiService.create / AiService.update with the  *)
(* image regeneration of AiService.generateAiImage, and the entry points   *)
(* over them: EventsGateway.handleGenerateArticle with the uploads         *)
(* directory, and the HTTP routes of AiController and AppController.       *)
(*                                                                         *)
(* Text is modelled as a sequence of one-character strings, so that the    *)
(* JavaScript `+=` on strings is sequence concatenation and Number() is a  *)
(* real parse.  JavaScript's undefined is the value Undefined.             *)
(***************************************************************************)
EXTENDS Integers, Sequences, FiniteSets, TLC

VARIABLES
    run,         \* per call of generateTextByUserDescription: its locals and position
    sockets,     \* per client connection: the 'articlePartGenerated' payloads emitted to it
    textCalls,   \* the calls of withHistory.stream made so far, with what each stream yielded
    posts,       \* the Post collection: id -> stored document
    upd,         \* per call of AiService.update: its locals and position
    created,     \* the calls of AiService.create so far: arguments and returned value
    imageCalls,  \* the calls of generateAiImage so far, each with the prompt it sent
                 \* to openAIImage.invoke (if it got that far) and the answer
    uploads,     \* the uploads directory: per form field, the text of the file stored
    uploaded,    \* per caller: the fields it has uploaded for its next run
    gw,          \* per 'generateArticle' message: the gateway handler's locals and position
    http,        \* per HTTP request: its entry point, what it passes on and its response
    data,        \* per call of generateTextByUserDescription: the optional arguments
                 \* its prompts are composed from
    connection   \* per client socket: whether it is connected, and what had been
                 \* emitted to it and called for when it was disconnected

vars == <<run, sockets, textCalls, posts, upd, created, imageCalls,
          uploads, uploaded, gw, http, data, connection>>
genVars == <<run, sockets, textCalls>>
postVars == <<posts, upd, created, imageCalls>>
msgVars == <<data, connection>>
edgeVars == <<uploaded, gw, http, msgVars>>

(***************************************************************************)
(* Bounds of the model.                                                    *)
(***************************************************************************)
\* fragments the text service yields in one run, over all its streams
MaxFragments == 3
\* documents the store may hold
MaxPosts == 2
\* stream calls logged where a run may go on without end
MaxCalls == 8

\* JavaScript's undefined, for a value that is otherwise a string: no string of
\* the model has an element that is not a single character
Undefined == <<"undefined">>
\* a JavaScript number: an integer, NaN or Infinity
Num(v) == [nan |-> FALSE, inf |-> FALSE, v |-> v]
NaN == [nan |-> TRUE, inf |-> FALSE, v |-> 0]
Infinity == [nan |-> FALSE, inf |-> TRUE, v |-> 0]

Runs == {"r1"}
\* the calls of generateTextByUserDescription that may be in progress together
AllRuns == {"r1", "r2"}
\* the calls of AiService.update that may be in progress together
UpdateCalls == {"u1", "u2"}
Clients == {"c1", "c2"}
\* the chunk.content values the text service may yield
Fragments == {<<"a">>, <<"b", "c">>}
\* the chunk.content the text service yields to run r when it answers each
\* run with a text of its own
FragmentOf(r) == IF r = "r1" THEN <<"a">> ELSE <<"b", "c">>

(***************************************************************************)
(* JavaScript helpers.                                                     *)
(***************************************************************************)
Digits == {"0", "1", "2", "3", "4", "5", "6", "7", "8", "9"}

DigitValue(c) ==
    CASE c = "0" -> 0 [] c = "1" -> 1 [] c = "2" -> 2 [] c = "3" -> 3
      [] c = "4" -> 4 [] c = "5" -> 5 [] c = "6" -> 6 [] c = "7" -> 7
      [] c = "8" -> 8 [] c = "9" -> 9

RECURSIVE DecimalValue(_)
DecimalValue(s) ==
    IF s = <<>> THEN 0
    ELSE 10 * DecimalValue(SubSeq(s, 1, Len(s) - 1)) + DigitValue(s[Len(s)])

\* Number with 4 for what is not a number
NumberDefaulted(s) ==
    IF s = Undefined THEN Num(4)
    ELSE IF s = <<>> THEN Num(0)
    ELSE IF \A k \in 1..Len(s) : s[k] \in Digits THEN Num(DecimalValue(s))
    ELSE Num(4)

\* the string Number() reads as Infinity
InfinityText == <<"I", "n", "f", "i", "n", "i", "t", "y">>

\* Number(articleLength), on undefined, the empty string, 'Infinity', digit
\* strings and other strings holding a non-digit (the inputs drawn here hold
\* no sign, blank, point or exponent).
Number(s) ==
    IF s = Undefined THEN NaN
    ELSE IF s = <<>> THEN Num(0)
    ELSE IF s = InfinityText THEN Infinity
    ELSE IF \A k \in 1..Len(s) : s[k] \in Digits THEN Num(DecimalValue(s))
    ELSE NaN

\* the concatenation of a sequence of strings, left to right
RECURSIVE Flatten(_)
Flatten(ss) ==
    IF ss = <<>> THEN <<>> ELSE Head(ss) \o Flatten(Tail(ss))

(***************************************************************************)
(* Article generation: AiService.generateTextByUserDescription.            *)
(***************************************************************************)
\* enum ArticleLength
ArticleLengthEnum == {<<"4">>, <<"5">>, <<"6">>, <<"8">>, <<"1", "0">>}

\* the articleLength values a 'generateArticle' message may carry (the field
\* is optional and unvalidated)
ArticleLengthInputs ==
    ArticleLengthEnum \cup {Undefined, <<>>, <<"1">>, <<"2">>, <<"x">>}

INTRODUCTION == "INTRODUCTION"
BODY == "BODY"
CONCLUSION == "CONCLUSION"
REFERENCES == "REFERENCES"

\* return { response: 'fullArticle' }: the returned string is this literal
ResponseLiteral == <<"f", "u", "l", "l", "A", "r", "t", "i", "c", "l", "e">>

\* the form fields of POST /upload; the file of a field is stored in the
\* uploads directory as <field>.pdf, whoever sent it
AuxFields == {"infoContent", "sampleText", "sampleKeywords"}
\* the uploads directory when empty: no field has a file
NoFiles == [f \in AuxFields |-> Undefined]
\* the text of the files caller c uploads
FileText(c) == IF c = "c1" THEN <<"f", "1">> ELSE <<"f", "2">>

\* configurable: { sessionId: '1' }
SessionId == <<"1">>

\* getMessageHistory as a lookup by session id in a store the runs share:
\* session '1' is the history the first run made
GetMessageHistoryBySession(r, sessionId) == run["r1"].messageHistory

\* getMessageHistory: (_sessionId) => messageHistory: the history made for
\* this call of generateTextByUserDescription, whatever the session id
GetMessageHistory(r, sessionId) == run[r].messageHistory

\* the turn RunnableWithMessageHistory keeps of a stream call that has ended
\* with its last fragment only, not the aggregated output
TurnOfLastChunk(call) ==
    [input |-> call.input,
     output |-> IF call.produced = <<>> THEN <<>>
                ELSE call.produced[Len(call.produced)]]

\* the turn RunnableWithMessageHistory keeps of a stream call that has ended:
\* the input message and the output aggregated over the stream's chunks
Turn(call) == [input |-> call.input, output |-> Flatten(call.produced)]

IdleRun ==
    [pc |-> "idle", articleLength |-> Undefined, client |-> Undefined,
     postHeadings |-> NaN, i |-> 0, fullArticle |-> <<>>,
     messageHistory |-> <<>>, stream |-> 0, result |-> Undefined,
     error |-> FALSE, prompt |-> <<>>]

\* the guard of `for (let i = 0; i <= postHeadings - 2; i += 2)`; a
\* comparison with NaN is false, Infinity - 2 is Infinity
LoopCond(i, postHeadings) ==
    /\ ~postHeadings.nan
    /\ postHeadings.inf \/ i <= postHeadings.v - 2

\* NextStage with the last two streamChunks calls in the other order
NextStageReferencesFirst(stage, i, postHeadings) ==
    CASE stage = INTRODUCTION ->
           IF LoopCond(0, postHeadings) THEN <<BODY, 0>> ELSE <<REFERENCES, 0>>
      [] stage = BODY ->
           IF LoopCond(i + 2, postHeadings) THEN <<BODY, i + 2>>
           ELSE <<REFERENCES, i + 2>>
      [] stage = REFERENCES -> <<CONCLUSION, i>>
      [] stage = CONCLUSION -> <<"return", i>>

\* where control goes when the streamChunks call of stage `stage` resolves,
\* as <<next pc, next i>>
NextStage(stage, i, postHeadings) ==
    CASE stage = INTRODUCTION ->
           IF LoopCond(0, postHeadings) THEN <<BODY, 0>> ELSE <<CONCLUSION, 0>>
      [] stage = BODY ->
           IF LoopCond(i + 2, postHeadings) THEN <<BODY, i + 2>>
           ELSE <<CONCLUSION, i + 2>>
      [] stage = CONCLUSION -> <<REFERENCES, i>>
      [] stage = REFERENCES -> <<"return", i>>

\* the inputText of the stage's streamChunks call: the stage's template; the
\* BODY template carries postSubheadings when i === 0
InputText(stage, i) ==
    [stage |-> stage, subheadings |-> (stage = BODY /\ i = 0)]

\* JavaScript's null (`let newImage = null`)
Null == <<"null">>
\* JavaScript truthiness of a string, undefined or null
Truthy(v) == v /= Undefined /\ v /= Null /\ v /= <<>>

(***************************************************************************)
(* The prompts of a run.  A composed text is a sequence of pieces; a piece *)
(* is the fixed wording of a clause or the value interpolated after it,    *)
(* and names the argument the clause is for ("none": wording of the        *)
(* template itself).                                                       *)
(***************************************************************************)
\* what `${v}` puts into a template literal for v undefined
UndefinedText == <<"u", "n", "d", "e", "f", "i", "n", "e", "d">>
\* `${v}` for a string or undefined
ToText(v) == IF v = Undefined THEN UndefinedText ELSE v

\* Array.prototype.join
RECURSIVE Join(_, _)
Join(items, separator) ==
    IF items = <<>> THEN <<>>
    ELSE IF Len(items) = 1 THEN items[1]
    ELSE items[1] \o separator \o Join(Tail(items), separator)

\* an optional array argument: undefined, or an array of strings
NoArray == [defined |-> FALSE, items |-> <<>>]
ArrayOf(items) == [defined |-> TRUE, items |-> items]
\* `${a}` for an array or undefined: Array.prototype.toString joins with ','
ArrayToText(a) == IF a.defined THEN Join(a.items, <<",">>) ELSE UndefinedText

\* the optional headings argument: undefined, or an object whose three
\* properties may each be missing
NoHeadings ==
    [defined |-> FALSE, introduction |-> Undefined, mainBody |-> Undefined,
     conclusion |-> Undefined]

\* fixed wording of a template
Fixed(wording) == <<[field |-> "none", kind |-> "wording", text |-> <<wording>>]>>
\* a clause for argument `field`: its fixed wording, then the value
Clause(field, wording, value) ==
    <<[field |-> field, kind |-> "wording", text |-> <<wording>>],
      [field |-> field, kind |-> "value", text |-> value]>>

\* const blogFromLink = link ? `include the information from this link - ${link}.` : ''
BlogFromLink(link) ==
    IF Truthy(link)
    THEN Clause("link", "include the information from this link - ", ToText(link))
    ELSE <<>>

\* const headingIntroduction = headings && headings.introduction ? ... : ''
HeadingIntroduction(headings) ==
    IF headings.defined /\ Truthy(headings.introduction)
    THEN Clause("headings.introduction", "Use this heading in introduction - ",
                ToText(headings.introduction))
    ELSE <<>>

\* const headingBody = headings && headings.introduction
\*   ? `Use this heading in middle sections - ${headings.mainBody}.` : ''
HeadingBody(headings) ==
    IF headings.defined /\ Truthy(headings.introduction)
    THEN Clause("headings.mainBody", "Use this heading in middle sections - ",
                ToText(headings.mainBody))
    ELSE <<>>

\* const headingConclusion = headings && headings.introduction
\*   ? `Use this heading in conclusion sections - ${headings.conclusion}.` : ''
HeadingConclusion(headings) ==
    IF headings.defined /\ Truthy(headings.introduction)
    THEN Clause("headings.conclusion", "Use this heading in conclusion sections - ",
                ToText(headings.conclusion))
    ELSE <<>>

\* const postSample = sampleTextFile
\*   ? `use this text as a ${sampleTextFile} for creating a post.` : ''
PostSample(sampleTextFile) ==
    IF Truthy(sampleTextFile)
    THEN Clause("sampleText", "use this text as a ", ToText(sampleTextFile))
    ELSE <<>>

\* postSubheadingsPhrase: subheadings.join('; ') when subheadings has a length
PostSubheadingsPhrase(subheadings) ==
    IF subheadings.defined /\ Len(subheadings.items) /= 0
    THEN Join(subheadings.items, <<";", " ">>)
    ELSE <<>>

\* const postSubheadings = postSubheadingsPhrase.length
\*   ? `Use this subheadings in this sections - ${postSubheadingsPhrase}.` : ''
PostSubheadings(subheadings) ==
    IF Len(PostSubheadingsPhrase(subheadings)) /= 0
    THEN Clause("subheadings", "Use this subheadings in this sections - ",
                PostSubheadingsPhrase(subheadings))
    ELSE <<>>

\* const infoContent = infoContentFile
\*   ? `include the information from this text - ${infoContentFile}.` : ''
InfoContent(infoContentFile) ==
    IF Truthy(infoContentFile)
    THEN Clause("infoContent", "include the information from this text - ",
                ToText(infoContentFile))
    ELSE <<>>

\* const sampleKeywords = sampleKeywordsFile
\*   ? `and this keywords - ${sampleKeywordsFile}` : ''
SampleKeywords(sampleKeywordsFile) ==
    IF Truthy(sampleKeywordsFile)
    THEN Clause("sampleKeywords", "and this keywords - ",
                ToText(sampleKeywordsFile))
    ELSE <<>>

\* the optional arguments when the message has none of them
NoData ==
    [callToAction |-> Undefined, toneOfVoice |-> Undefined,
     languageComplexity |-> Undefined, vocabularyLevel |-> Undefined,
     formalityLevel |-> Undefined, tempOfVoice |-> Undefined,
     keywords |-> NoArray, headings |-> NoHeadings, subheadings |-> NoArray,
     link |-> Undefined]

\* the system messages of ChatPromptTemplate.fromMessages, composed once per
\* run from the optional arguments d and the texts of the uploaded files
\* (the values of the model hold no brace, so the parse of the messages as
\* f-string templates leaves them as they are)
SystemPrompt(d, files) ==
    Fixed(" Based on the following description, ")
    \o Clause("keywords", "keywords - ", ArrayToText(d.keywords))
    \o SampleKeywords(files["sampleKeywords"])
    \o Fixed("write a professional blog for business Journal post in HTML format")
    \o Clause("callToAction", "Include in text Call To Action phrase ",
              ToText(d.callToAction))
    \o BlogFromLink(d.link)
    \o InfoContent(files["infoContent"])
    \o Fixed("The generated blog post should be modern")
    \o PostSample(files["sampleText"])
    \o Fixed("The post should have such characteristics: ")
    \o Clause("toneOfVoice", "tone Of voice - ", ToText(d.toneOfVoice))
    \o Clause("languageComplexity", "language complexity - ",
              ToText(d.languageComplexity))
    \o Clause("vocabularyLevel", "vocabulary level - ", ToText(d.vocabularyLevel))
    \o Clause("formalityLevel", "formality level - ", ToText(d.formalityLevel))
    \o Clause("tempOfVoice", "temp Of voice (Passive or Active Voice) - ",
              ToText(d.tempOfVoice))
    \o Fixed("Layout structure of blog schould be ")

\* InstructionText with postSubheadings in the template of every BODY iteration
InstructionTextSubheadingsEveryBody(stage, i, d) ==
    CASE stage = INTRODUCTION ->
           Fixed("Write the introduction and the first section")
           \o HeadingIntroduction(d.headings) \o BlogFromLink(d.link)
      [] stage = BODY ->
           Fixed("Do not repeat the previous part, just write the middle sections")
           \o PostSubheadings(d.subheadings)
           \o HeadingBody(d.headings) \o BlogFromLink(d.link)
      [] stage = CONCLUSION ->
           Fixed("Do not repeat the previous part, just write the conclusion section")
           \o BlogFromLink(d.link) \o HeadingConclusion(d.headings)
      [] stage = REFERENCES ->
           Fixed("Do not repeat the previous part, just write the references section")

\* the template literal passed to streamChunks for the stage, with its
\* clauses interpolated
InstructionText(stage, i, d) ==
    CASE stage = INTRODUCTION ->
           Fixed("Write the introduction and the first section")
           \o HeadingIntroduction(d.headings) \o BlogFromLink(d.link)
      [] stage = BODY ->
           Fixed("Do not repeat the previous part, just write the middle sections")
           \o (IF i = 0 THEN PostSubheadings(d.subheadings) ELSE <<>>)
           \o HeadingBody(d.headings) \o BlogFromLink(d.link)
      [] stage = CONCLUSION ->
           Fixed("Do not repeat the previous part, just write the conclusion section")
           \o BlogFromLink(d.link) \o HeadingConclusion(d.headings)
      [] stage = REFERENCES ->
           Fixed("Do not repeat the previous part, just write the references section")

Stages == {INTRODUCTION, BODY, CONCLUSION, REFERENCES}

\* the handler is entered with the optional arguments data[r] and the texts
\* the gateway loaded for it: postHeadings, the prompt, a fresh
\* ChatMessageHistory and fullArticle = '' are set up; the first streamChunks
\* call is next
StartRun(r, len, c) ==
    /\ run[r].pc = "idle"
    /\ run' = [run EXCEPT ![r] =
                 [IdleRun EXCEPT !.pc = INTRODUCTION, !.articleLength = len,
                                 !.client = c, !.postHeadings = Number(len),
                                 !.prompt = SystemPrompt(data[r], gw[r].files)]]
    /\ UNCHANGED <<sockets, textCalls, postVars, uploads, edgeVars>>

\* streamChunks: `await withHistory.stream({input}, config)` returns a stream;
\* the history of this run is loaded into the prompt
StreamCall(r) ==
    /\ run[r].pc \in Stages
    /\ run[r].stream = 0
    /\ textCalls' = Append(textCalls,
           [run |-> r, stage |-> run[r].pc,
            input |-> InputText(run[r].pc, run[r].i),
            instruction |-> InstructionText(run[r].pc, run[r].i, data[r]),
            context |-> GetMessageHistory(r, SessionId),
            produced |-> <<>>, status |-> "open"])
    /\ run' = [run EXCEPT ![r].stream = Len(textCalls) + 1]
    /\ UNCHANGED <<sockets, postVars, uploads, edgeVars>>

\* streamChunks: the call of withHistory.stream rejects
StreamCallFails(r) ==
    /\ run[r].pc \in Stages
    /\ run[r].stream = 0
    /\ textCalls' = Append(textCalls,
           [run |-> r, stage |-> run[r].pc,
            input |-> InputText(run[r].pc, run[r].i),
            instruction |-> InstructionText(run[r].pc, run[r].i, data[r]),
            context |-> GetMessageHistory(r, SessionId),
            produced |-> <<>>, status |-> "failed"])
    /\ run' = [run EXCEPT ![r].pc = "failed", ![r].error = TRUE]
    /\ UNCHANGED <<sockets, postVars, uploads, edgeVars>>

\* StreamChunk collecting the chunk without emitting it
StreamChunkBuffered(r, f) ==
    /\ run[r].stream /= 0
    /\ textCalls[run[r].stream].status = "open"
    /\ Len(textCalls[run[r].stream].produced) < MaxFragments
    /\ textCalls' = [textCalls EXCEPT ![run[r].stream].produced = Append(@, f)]
    /\ run' = [run EXCEPT ![r].fullArticle = @ \o f]
    /\ UNCHANGED <<sockets, postVars, uploads, edgeVars>>

\* StreamChunk emitting the chunk to every connection (server.emit)
StreamChunkBroadcast(r, f) ==
    /\ run[r].stream /= 0
    /\ textCalls[run[r].stream].status = "open"
    /\ Len(sockets[run[r].client]) < MaxFragments
    /\ textCalls' = [textCalls EXCEPT ![run[r].stream].produced = Append(@, f)]
    /\ sockets' = [c \in Clients |-> Append(sockets[c], f)]
    /\ run' = [run EXCEPT ![r].fullArticle = @ \o f]
    /\ UNCHANGED <<postVars, uploads, edgeVars>>

\* one turn of `for await (const chunk of stream)`: the chunk is emitted to the
\* client and appended to fullArticle
StreamChunk(r, f) ==
    /\ run[r].stream /= 0
    /\ textCalls[run[r].stream].status = "open"
    /\ Len(sockets[run[r].client]) < MaxFragments
    /\ textCalls' = [textCalls EXCEPT ![run[r].stream].produced = Append(@, f)]
    /\ sockets' = [sockets EXCEPT ![run[r].client] = Append(@, f)]
    /\ run' = [run EXCEPT ![r].fullArticle = @ \o f]
    /\ UNCHANGED <<postVars, uploads, edgeVars>>

\* StreamFails with the failed streamChunks call made again
StreamFailsRetried(r) ==
    /\ run[r].stream /= 0
    /\ textCalls[run[r].stream].status = "open"
    /\ textCalls' = [textCalls EXCEPT ![run[r].stream].status = "failed"]
    /\ run' = [run EXCEPT ![r].stream = 0]
    /\ UNCHANGED <<sockets, postVars, uploads, edgeVars>>

\* StreamFails with the failure told to the client in a message of its own
StreamFailsReported(r) ==
    /\ run[r].stream /= 0
    /\ textCalls[run[r].stream].status = "open"
    /\ textCalls' = [textCalls EXCEPT ![run[r].stream].status = "failed"]
    /\ sockets' = [sockets EXCEPT ![run[r].client] = Append(@, <<"!">>)]
    /\ run' = [run EXCEPT ![r].pc = "failed", ![r].error = TRUE,
                          ![r].stream = 0]
    /\ UNCHANGED <<postVars, uploads, edgeVars>>

\* the stream throws while it is iterated: the catch block rethrows
StreamFails(r) ==
    /\ run[r].stream /= 0
    /\ textCalls[run[r].stream].status = "open"
    /\ textCalls' = [textCalls EXCEPT ![run[r].stream].status = "failed"]
    /\ run' = [run EXCEPT ![r].pc = "failed", ![r].error = TRUE,
                          ![r].stream = 0]
    /\ UNCHANGED <<sockets, postVars, uploads, edgeVars>>

\* the stream ends: RunnableWithMessageHistory appends the turn (the input and
\* the aggregated output) to this run's messageHistory, streamChunks resolves
\* and control moves on; after the last stage the uploads directory is emptied
\* (the files this run's caller had sent for it are gone with the rest) and
\* the handler returns
StreamEnd(r) ==
    /\ run[r].stream /= 0
    /\ textCalls[run[r].stream].status = "open"
    /\ textCalls' = [textCalls EXCEPT ![run[r].stream].status = "ended"]
    /\ LET call == textCalls[run[r].stream]
           next == NextStage(run[r].pc, run[r].i, run[r].postHeadings)
           turn == Turn(call)
       IN  /\ run' = [run EXCEPT
                        ![r].messageHistory = Append(@, turn),
                        ![r].stream = 0,
                        ![r].i = next[2],
                        ![r].pc = IF next[1] = "return" THEN "done" ELSE next[1],
                        ![r].result = IF next[1] = "return"
                                      THEN [response |-> ResponseLiteral]
                                      ELSE @]
           /\ uploads' = IF next[1] = "return" THEN NoFiles ELSE uploads
           /\ uploaded' = IF next[1] = "return"
                          THEN [uploaded EXCEPT ![run[r].client] = {}]
                          ELSE uploaded
    /\ UNCHANGED <<sockets, postVars, gw, http, msgVars>>

GenNext ==
    \/ \E r \in Runs, len \in ArticleLengthInputs, c \in Clients :
           StartRun(r, len, c)
    \/ \E r \in Runs : StreamCall(r)
    \/ \E r \in Runs : StreamCallFails(r)
    \/ \E r \in Runs, f \in Fragments : StreamChunk(r, f)
    \/ \E r \in Runs : StreamFails(r)
    \/ \E r \in Runs : StreamEnd(r)

GenInit ==
    /\ run = [r \in AllRuns |-> IdleRun]
    /\ sockets = [c \in Clients |-> <<>>]
    /\ textCalls = <<>>

(***************************************************************************)
(* The Post store: AiService.create, AiService.update, generateAiImage.    *)
(***************************************************************************)

\* The paths of the Post schema.  AiService imports Post from
\* ./schemas/post.schema and reads blogPost.description; that file is not
\* among the sources (the one Post class there, with image and text only,
\* belongs to the revision whose create stored { text } alone), so the paths
\* are those of the Post entity of the design: text, image, description (the
\* id is the position in `posts`).
PostSchemaPaths == {"text", "image", "description"}

\* the values a request may carry
CreateRequests ==
    {[description |-> <<"d", "1">>, postText |-> <<"t", "1">>,
      imageUrl |-> <<"u", "1">>],
     [description |-> <<"{", "d", "}">>, postText |-> <<"t", "2">>,
      imageUrl |-> <<"u", "2">>]}
UpdateTexts == {Undefined, <<>>, <<"X">>}
UpdateImages == {Undefined, <<>>, <<"u", "3">>}
\* the URLs the image service may answer
GeneratedUrls == {<<"g", "1">>}


\* the index of the first element of s at or after `from` that is in `set`,
\* or 0 (nextBracket of the f-string parser)
RECURSIVE NextBracket(_, _, _)
NextBracket(s, set, from) ==
    IF from > Len(s) THEN 0
    ELSE IF s[from] \in set THEN from
    ELSE NextBracket(s, set, from + 1)

\* PromptTemplate.fromTemplate(template) and format(values) on an f-string
\* template, from position i on: "{{" and "}}" are the literal braces, "{name}"
\* is replaced by values.description when name is "description" and is an
\* error for any other name (no value is given for it), an unclosed "{" or a
\* single "}" is an error; everything else is copied
DescriptionKey == <<"d", "e", "s", "c", "r", "i", "p", "t", "i", "o", "n">>
RECURSIVE InterpolateFString(_, _, _)
InterpolateFString(template, description, i) ==
    IF i > Len(template) THEN [ok |-> TRUE, text |-> <<>>]
    ELSE LET c == template[i]
             doubled == i + 1 <= Len(template) /\ template[i + 1] = c
             close == NextBracket(template, {"}"}, i)
             next == NextBracket(template, {"{", "}"}, i)
             then(piece, j) ==
                 LET rest == InterpolateFString(template, description, j)
                 IN  IF rest.ok THEN [ok |-> TRUE, text |-> piece \o rest.text]
                     ELSE rest
         IN  IF c \in {"{", "}"} /\ doubled THEN then(<<c>>, i + 2)
             ELSE IF c = "{"
                  THEN IF close = 0 THEN [ok |-> FALSE, text |-> <<>>]
                       ELSE IF SubSeq(template, i + 1, close - 1) = DescriptionKey
                            THEN then(description, close + 1)
                            ELSE [ok |-> FALSE, text |-> <<>>]
             ELSE IF c = "}" THEN [ok |-> FALSE, text |-> <<>>]
             ELSE IF next = 0 THEN [ok |-> TRUE, text |-> SubSeq(template, i, Len(template))]
             ELSE then(SubSeq(template, i, next - 1), next)

\* the fixed wording of the image prompt before and after the quoted
\* description, each shortened to one character; neither holds a brace
ImagePromptHead == <<"<">>
ImagePromptTail == <<">">>

\* generateAiImage up to the call of the image service: the description is
\* put into the template text itself, which is then parsed and formatted
ComposeImagePrompt(description) ==
    InterpolateFString(ImagePromptHead \o description \o ImagePromptTail,
                       description, 1)

\* ids are the store's: 1..Len(posts) name the stored documents, in creation
\* order; any other id names none
Exists(id) == id \in 1..Len(posts)

\* new this.postModel(obj): the document holds the schema's paths of obj; a path
\* that obj lacks or gives as undefined is absent (read back as undefined)
NewDocument(obj) ==
    [p \in PostSchemaPaths |-> IF p \in DOMAIN obj THEN obj[p] ELSE Undefined]

\* ApplyUpdate as a replacement of the document (the update with overwrite):
\* a path the update does not give is lost
ApplyUpdateReplacing(doc, update) ==
    [p \in DOMAIN doc |->
        IF p \in DOMAIN update /\ p \in PostSchemaPaths THEN update[p]
        ELSE Undefined]

\* findByIdAndUpdate(id, update): the update's keys are $set on the document,
\* except keys whose value is undefined (removed from the update) and keys that
\* are no path of the schema
ApplyUpdate(doc, update) ==
    [p \in DOMAIN doc |->
        IF p \in DOMAIN update /\ p \in PostSchemaPaths /\ update[p] /= Undefined
        THEN update[p]
        ELSE doc[p]]

\* toResponsePostDto
ToResponsePostDto(id, doc) == [_id |-> id, image |-> doc.image, text |-> doc.text]

\* `throw new Error('No posts available')`
NotFoundError == <<"No posts available">>
\* the error generateAiImage rethrows
ImageError == <<"image service">>

\* Create as the earlier revisions did it: the image is generated from the
\* description rather than taken from the request
CreateRegenerating(description, postText, imageUrl) ==
    /\ Len(posts) < MaxPosts
    /\ \E url \in GeneratedUrls :
         LET newPost == NewDocument([text |-> postText, image |-> url,
                                     description |-> description])
         IN  /\ posts' = Append(posts, newPost)
             /\ created' = Append(created,
                    [args |-> [description |-> description, postText |-> postText,
                               imageUrl |-> imageUrl],
                     returned |-> ToResponsePostDto(Len(posts) + 1, newPost)])
             /\ imageCalls' = Append(imageCalls,
                    [by |-> "create", description |-> description,
                     prompt |-> ComposeImagePrompt(description).text,
                     answer |-> url])
    /\ UNCHANGED <<upd, genVars, uploads, edgeVars>>

\* AiService.create: the document is built from the three arguments and saved
Create(description, postText, imageUrl) ==
    /\ Len(posts) < MaxPosts
    /\ LET newPost == NewDocument([text |-> postText, image |-> imageUrl,
                                   description |-> description])
       IN  /\ posts' = Append(posts, newPost)
           /\ created' = Append(created,
                  [args |-> [description |-> description, postText |-> postText,
                             imageUrl |-> imageUrl],
                   returned |-> ToResponsePostDto(Len(posts) + 1, newPost)])
    /\ UNCHANGED <<upd, imageCalls, genVars, uploads, edgeVars>>

\* UpdateDocument with a missing text defaulted to the empty string
UpdateDocumentTextDefaulted(restDto, blogPost, newImage) ==
    [text |-> IF restDto.text = Undefined THEN <<>> ELSE restDto.text,
     image |-> IF Truthy(restDto.image) THEN newImage ELSE blogPost.image]

\* the update document of the findByIdAndUpdate call in AiService.update
UpdateDocument(restDto, blogPost, newImage) ==
    [text |-> restDto.text,
     image |-> IF Truthy(restDto.image) THEN newImage ELSE blogPost.image]

\* ImageSource taking the prompt from the request's image value
ImageSourceFromRequest(restDto, blogPost) == restDto.image

\* the argument AiService.update passes to generateAiImage
ImageSource(restDto, blogPost) == blogPost.description

IdleUpdate ==
    [pc |-> "idle", id |-> 0, restDto |-> [text |-> Undefined, image |-> Undefined],
     blogPost |-> Null, newImage |-> Null, result |-> Null, error |-> Null]

\* AiService.update is called with postDto = {id, text, image}
UpdateCall(u, id, text, image) ==
    /\ upd[u].pc = "idle"
    /\ upd' = [upd EXCEPT ![u] =
                 [IdleUpdate EXCEPT !.pc = "findById", !.id = id,
                                    !.restDto = [text |-> text, image |-> image]]]
    /\ UNCHANGED <<posts, created, imageCalls, genVars, uploads, edgeVars>>

\* UpdateFindById without the `if (!blogPost)` check: a missing document is
\* taken for an empty one
UpdateFindByIdUnchecked(u) ==
    /\ upd[u].pc = "findById"
    /\ upd' = [upd EXCEPT ![u] =
          [@ EXCEPT !.blogPost = IF Exists(upd[u].id) THEN posts[upd[u].id]
                                 ELSE NewDocument([text |-> Undefined]),
                    !.pc = IF Truthy(upd[u].restDto.image)
                           THEN "generateAiImage"
                           ELSE "findByIdAndUpdate"]]
    /\ UNCHANGED <<posts, created, imageCalls, genVars, uploads, edgeVars>>

\* `await this.postModel.findById(id)` resolves; a null document throws,
\* otherwise a truthy restDto.image leads to generateAiImage
UpdateFindById(u) ==
    /\ upd[u].pc = "findById"
    /\ upd' = [upd EXCEPT ![u] =
          IF ~Exists(upd[u].id)
          THEN [@ EXCEPT !.pc = "rejected",
                         !.error = NotFoundError]
          ELSE [@ EXCEPT !.blogPost = posts[upd[u].id],
                         !.pc = IF Truthy(upd[u].restDto.image)
                                THEN "generateAiImage"
                                ELSE "findByIdAndUpdate"]]
    /\ UNCHANGED <<posts, created, imageCalls, genVars, uploads, edgeVars>>

\* generateAiImage: the prompt is formatted from the description, the image
\* service is invoked once and answers a URL
UpdateGenerateImage(u, url) ==
    /\ upd[u].pc = "generateAiImage"
    /\ LET description == ImageSource(upd[u].restDto, upd[u].blogPost)
           composed == ComposeImagePrompt(description)
       IN  /\ composed.ok
           /\ imageCalls' = Append(imageCalls,
                  [by |-> u, description |-> description,
                   prompt |-> composed.text, answer |-> url])
    /\ upd' = [upd EXCEPT ![u].newImage = url, ![u].pc = "findByIdAndUpdate"]
    /\ UNCHANGED <<posts, created, genVars, uploads, edgeVars>>

\* UpdateGenerateImageFails with the error caught and dropped: generateAiImage
\* returns nothing and update goes on
UpdateGenerateImageFailsSwallowed(u) ==
    /\ upd[u].pc = "generateAiImage"
    /\ LET description == ImageSource(upd[u].restDto, upd[u].blogPost)
           composed == ComposeImagePrompt(description)
       IN  imageCalls' = Append(imageCalls,
               [by |-> u, description |-> description,
                prompt |-> IF composed.ok THEN composed.text ELSE Undefined,
                answer |-> Null])
    /\ upd' = [upd EXCEPT ![u].pc = "findByIdAndUpdate"]
    /\ UNCHANGED <<posts, created, genVars, uploads, edgeVars>>

\* UpdateGenerateImageFails with the request's text written before update
\* rejects
UpdateGenerateImageFailsTextSaved(u) ==
    /\ upd[u].pc = "generateAiImage"
    /\ LET description == ImageSource(upd[u].restDto, upd[u].blogPost)
           composed == ComposeImagePrompt(description)
       IN  imageCalls' = Append(imageCalls,
               [by |-> u, description |-> description,
                prompt |-> IF composed.ok THEN composed.text ELSE Undefined,
                answer |-> Null])
    /\ posts' = [posts EXCEPT ![upd[u].id] =
                   ApplyUpdate(@, [text |-> upd[u].restDto.text])]
    /\ upd' = [upd EXCEPT ![u].pc = "rejected",
                          ![u].error = ImageError]
    /\ UNCHANGED <<created, genVars, uploads, edgeVars>>

\* generateAiImage: the prompt cannot be composed (the image service is then
\* not called), or the image service fails; the catch block rethrows and
\* update rejects
UpdateGenerateImageFails(u) ==
    /\ upd[u].pc = "generateAiImage"
    /\ LET description == ImageSource(upd[u].restDto, upd[u].blogPost)
           composed == ComposeImagePrompt(description)
       IN  imageCalls' = Append(imageCalls,
               [by |-> u, description |-> description,
                prompt |-> IF composed.ok THEN composed.text ELSE Undefined,
                answer |-> Null])
    /\ upd' = [upd EXCEPT ![u].pc = "rejected",
                          ![u].error = ImageError]
    /\ UNCHANGED <<posts, created, genVars, uploads, edgeVars>>

\* `return this.postModel.findByIdAndUpdate(id, {...}, { new: true })`: the
\* update is applied to the stored document, which is returned as updated
UpdateFindByIdAndUpdate(u) ==
    /\ upd[u].pc = "findByIdAndUpdate"
    /\ LET id == upd[u].id
           doc == ApplyUpdate(posts[id],
                      UpdateDocument(upd[u].restDto, upd[u].blogPost,
                                     upd[u].newImage))
       IN  /\ posts' = [posts EXCEPT ![id] = doc]
           /\ upd' = [upd EXCEPT ![u].result = doc, ![u].pc = "done"]
    /\ UNCHANGED <<created, imageCalls, genVars, uploads, edgeVars>>

PostNext ==
    \/ \E c \in CreateRequests : Create(c.description, c.postText, c.imageUrl)
    \/ \E u \in UpdateCalls, id \in 1..(MaxPosts + 1),
          t \in UpdateTexts, img \in UpdateImages :
           UpdateCall(u, id, t, img)
    \/ \E u \in UpdateCalls : UpdateFindById(u)
    \/ \E u \in UpdateCalls, url \in GeneratedUrls : UpdateGenerateImage(u, url)
    \/ \E u \in UpdateCalls : UpdateGenerateImageFails(u)
    \/ \E u \in UpdateCalls : UpdateFindByIdAndUpdate(u)

PostInit ==
    /\ posts = <<>>
    /\ upd = [u \in UpdateCalls |-> IdleUpdate]
    /\ created = <<>>
    /\ imageCalls = <<>>

(***************************************************************************)
(* The entry points: EventsGateway.handleGenerateArticle over the uploads  *)
(* directory, and the HTTP routes of AiController and AppController.       *)
(***************************************************************************)
\* the sets of fields one POST /upload may carry
UploadSets == {{"infoContent"}}
\* the articleLength values of the 'generateArticle' messages when two are
\* served together
GatewayLengths == {Undefined}
\* the caller whose 'generateArticle' message call r of the handler serves
ClientOf(r) == IF r = "r1" THEN "c1" ELSE "c2"

IdleGateway ==
    [pc |-> "idle", articleLength |-> Undefined, client |-> Undefined,
     files |-> NoFiles, own |-> {}]

\* AiController.uploadFile: multer stores each file of the request as
\* ./uploads/<field>.pdf, replacing the file of that name
UploadFile(c, fs) ==
    /\ uploads' = [f \in AuxFields |-> IF f \in fs THEN FileText(c) ELSE uploads[f]]
    /\ uploaded' = [uploaded EXCEPT ![c] = @ \cup fs]
    /\ UNCHANGED <<genVars, postVars, gw, http, msgVars>>

\* handleGenerateArticle up to the call of the service: every PDF of the
\* uploads directory is loaded and its text taken by the name of its field
HandleGenerateArticle(r, len, c) ==
    /\ gw[r].pc = "idle"
    /\ gw' = [gw EXCEPT ![r] =
                [pc |-> "loaded", articleLength |-> len, client |-> c,
                 files |-> uploads, own |-> uploaded[c]]]
    /\ UNCHANGED <<genVars, postVars, uploads, uploaded, http, msgVars>>

\* handleGenerateArticle calls generateTextByUserDescription with the
\* message's fields, the socket and the loaded texts
GatewayStartRun(r) ==
    /\ gw[r].pc = "loaded"
    /\ StartRun(r, gw[r].articleLength, gw[r].client)

\* `await this.aiService.generateTextByUserDescription(...)` settles: the
\* handler has no try/catch, it returns undefined when the run returned and
\* rejects when the run rejected
GatewayReturn(r) ==
    /\ gw[r].pc = "loaded"
    /\ run[r].pc \in {"done", "failed"}
    /\ gw' = [gw EXCEPT ![r].pc = IF run[r].pc = "done" THEN "resolved"
                                  ELSE "rejected"]
    /\ UNCHANGED <<genVars, postVars, uploads, uploaded, http, msgVars>>

\* the HTTP requests: one per call of update, and one of POST /generate-image
ImageRequests == {"g1"}
\* the update requests of SpecHttp, served one at a time
HttpUpdates == {"u1"}
HttpCalls == UpdateCalls \cup ImageRequests

IdleHttp ==
    [pc |-> "idle", entry |-> "none",
     dto |-> [id |-> 0, text |-> Undefined, image |-> Undefined],
     response |-> Null]

\* `throw new Error('Failed to update AI post')`, 'Failed to create AI post photo'
UpdateFailed == <<"Failed to update AI post">>
ImageFailed == <<"Failed to create AI post photo">>
\* { htmlContent: '', postId: '', image: '' }
EmptyPage == [htmlContent |-> <<>>, postId |-> <<>>, image |-> <<>>]

\* a request that has reached entry point `entry`, which is about to call
\* on with dto
Calling(entry, dto) ==
    [pc |-> "calling", entry |-> entry, dto |-> dto, response |-> Null]

\* PUT /modify-blogpost: AiController.updatePost(updatePostDto)
UpdatePostRequest(u, id, text, image) ==
    /\ http[u].pc = "idle"
    /\ http' = [http EXCEPT ![u] =
                  Calling("updatePost",
                          [id |-> id, text |-> text, image |-> image])]
    /\ UNCHANGED <<genVars, postVars, uploads, uploaded, gw, msgVars>>

\* POST /save-content: AppController.saveContent calls
\* aiController.updatePost({ id: postId, text: content })
SaveContentRequest(u, postId, content) ==
    /\ http[u].pc = "idle"
    /\ http' = [http EXCEPT ![u] =
                  Calling("saveContent",
                          [id |-> postId, text |-> content, image |-> Undefined])]
    /\ UNCHANGED <<genVars, postVars, uploads, uploaded, gw, msgVars>>

\* POST /regenerate-image: AppController.regenerateImage calls
\* aiController.updatePost({ id: postId, image: image })
RegenerateImageRequest(u, postId, image) ==
    /\ http[u].pc = "idle"
    /\ http' = [http EXCEPT ![u] =
                  Calling("regenerateImage",
                          [id |-> postId, text |-> Undefined, image |-> image])]
    /\ UNCHANGED <<genVars, postVars, uploads, uploaded, gw, msgVars>>

\* AiController.updatePost calls aiService.update with the DTO it was given
UpdatePostCalls(u) ==
    /\ http[u].pc = "calling"
    /\ UpdateCall(u, http[u].dto.id, http[u].dto.text, http[u].dto.image)

\* AiController.updatePost when aiService.update has settled: the updated
\* document is returned, an error is logged and replaced by a new Error
UpdatePostOutcome(u) ==
    IF upd[u].pc = "rejected"
    THEN [threw |-> TRUE, error |-> UpdateFailed, body |-> Null]
    ELSE [threw |-> FALSE, error |-> Null, body |-> upd[u].result]

\* AppController.saveContent / regenerateImage when aiController.updatePost
\* has settled with `outcome`: the post's fields are returned for the view,
\* an error is logged and the empty page returned
PageOutcome(id, outcome) ==
    IF outcome.threw
    THEN [threw |-> FALSE, error |-> Null, body |-> EmptyPage]
    ELSE [threw |-> FALSE, error |-> Null,
          body |-> [htmlContent |-> outcome.body.text, postId |-> id,
                    image |-> outcome.body.image]]

\* the call of aiService.update made for request u has settled and the
\* request is answered by its entry point
UpdateResponds(u) ==
    /\ http[u].pc = "calling"
    /\ upd[u].pc \in {"done", "rejected"}
    /\ http' = [http EXCEPT
                  ![u].pc = "responded",
                  ![u].response =
                      IF http[u].entry = "updatePost" THEN UpdatePostOutcome(u)
                      ELSE PageOutcome(http[u].dto.id, UpdatePostOutcome(u))]
    /\ UNCHANGED <<genVars, postVars, uploads, uploaded, gw, msgVars>>

\* POST /generate-image: AiController.generateImage calls generateAiImage,
\* which composes the prompt, invokes the image service once and returns the
\* URL it answers
GenerateImage(g, description, url) ==
    /\ http[g].pc = "idle"
    /\ LET composed == ComposeImagePrompt(description)
       IN  /\ composed.ok
           /\ imageCalls' = Append(imageCalls,
                  [by |-> g, description |-> description,
                   prompt |-> composed.text, answer |-> url])
    /\ http' = [http EXCEPT ![g] =
                  [pc |-> "responded", entry |-> "generateImage",
                   dto |-> [id |-> 0, text |-> Undefined, image |-> description],
                   response |-> [threw |-> FALSE, error |-> Null, body |-> url]]]
    /\ UNCHANGED <<genVars, posts, upd, created, uploads, uploaded, gw, msgVars>>

\* POST /generate-image when the prompt cannot be composed or the image
\* service fails: generateAiImage rethrows, AiController.generateImage logs
\* the error and throws a new Error
GenerateImageFails(g, description) ==
    /\ http[g].pc = "idle"
    /\ LET composed == ComposeImagePrompt(description)
       IN  imageCalls' = Append(imageCalls,
               [by |-> g, description |-> description,
                prompt |-> IF composed.ok THEN composed.text ELSE Undefined,
                answer |-> Null])
    /\ http' = [http EXCEPT ![g] =
                  [pc |-> "responded", entry |-> "generateImage",
                   dto |-> [id |-> 0, text |-> Undefined, image |-> description],
                   response |-> [threw |-> TRUE, error |-> ImageFailed,
                                 body |-> Null]]]
    /\ UNCHANGED <<genVars, posts, upd, created, uploads, uploaded, gw, msgVars>>

\* the descriptions a POST /generate-image may carry
ImageDescriptions ==
    {<<"d", "1">>, <<"{", "d", "}">>, <<"}">>, <<"{", "{", "a", "}", "}">>}

EdgeInit ==
    /\ uploads = NoFiles
    /\ uploaded = [c \in Clients |-> {}]
    /\ gw = [r \in AllRuns |-> IdleGateway]
    /\ http = [h \in HttpCalls |-> IdleHttp]

\* a socket that has not connected yet
NoConnection == [state |-> "none", emitted |-> 0, calls |-> 0]

\* EventsGateway.handleConnection: the socket is connected; the handler logs
\* the client id
HandleConnection(c) ==
    /\ connection[c].state = "none"
    /\ connection' = [connection EXCEPT ![c].state = "open"]
    /\ UNCHANGED <<genVars, postVars, uploads, uploaded, gw, http, data>>

\* HandleDisconnect ending the runs that emit to the socket
HandleDisconnectCancelling(c) ==
    /\ connection[c].state = "open"
    /\ connection' = [connection EXCEPT ![c] =
                        [state |-> "closed", emitted |-> Len(sockets[c]),
                         calls |-> Len(textCalls)]]
    /\ run' = [r \in AllRuns |->
                 IF run[r].pc \in Stages /\ run[r].client = c
                 THEN [run[r] EXCEPT !.pc = "failed", !.error = TRUE, !.stream = 0]
                 ELSE run[r]]
    /\ UNCHANGED <<sockets, textCalls, postVars, uploads, uploaded, gw, http, data>>

\* EventsGateway.handleDisconnect: the socket is disconnected; the handler
\* logs the client id and nothing else, so no run is told.  What had been
\* emitted and called for by then is kept with the connection.
HandleDisconnect(c) ==
    /\ connection[c].state = "open"
    /\ connection' = [connection EXCEPT ![c] =
                        [state |-> "closed", emitted |-> Len(sockets[c]),
                         calls |-> Len(textCalls)]]
    /\ UNCHANGED <<genVars, postVars, uploads, uploaded, gw, http, data>>

\* no client is connected and the messages carry none of the optional fields
MsgInit ==
    /\ data = [r \in AllRuns |-> NoData]
    /\ connection = [c \in Clients |-> NoConnection]

(***************************************************************************)
(* Specifications: Spec is one generation run; SpecPost is the Post store  *)
(* under create and concurrent update calls; SpecGateway is two            *)
(* 'generateArticle' messages served together over the uploads directory;  *)
(* SpecHttp is the HTTP routes over the Post store; SpecPrompt is one      *)
(* message whose optional fields are drawn, for the prompts composed from  *)
(* them; SpecDisconnect is one run whose client may disconnect; SpecFair   *)
(* is one run under fairness, for any articleLength.                       *)
(***************************************************************************)
Init == GenInit /\ PostInit /\ EdgeInit /\ MsgInit

Next == GenNext

Spec == Init /\ [][Next]_vars

SpecPost == Init /\ [][PostNext]_vars

\* the Post store when update calls do not overlap: a call of update is made
\* only when no other is in progress
SerialPostNext ==
    \/ \E c \in CreateRequests : Create(c.description, c.postText, c.imageUrl)
    \/ \E u \in UpdateCalls, id \in 1..(MaxPosts + 1),
          t \in UpdateTexts, img \in UpdateImages :
           /\ \A v \in UpdateCalls : upd[v].pc \in {"idle", "done", "rejected"}
           /\ UpdateCall(u, id, t, img)
    \/ \E u \in UpdateCalls : UpdateFindById(u)
    \/ \E u \in UpdateCalls, url \in GeneratedUrls : UpdateGenerateImage(u, url)
    \/ \E u \in UpdateCalls : UpdateGenerateImageFails(u)
    \/ \E u \in UpdateCalls : UpdateFindByIdAndUpdate(u)

SpecPostSerial == Init /\ [][SerialPostNext]_vars

\* the fragments emitted so far, over all connections
Emitted == Len(sockets["c1"]) + Len(sockets["c2"])

\* two runs in progress together, each for its own caller, the text service
\* answering each with its own text
ConcurrentNext ==
    \/ \E r \in AllRuns, len \in GatewayLengths : StartRun(r, len, ClientOf(r))
    \/ \E r \in AllRuns : StreamCall(r)
    \/ \E r \in AllRuns : StreamCallFails(r)
    \/ \E r \in AllRuns :
           Emitted < MaxFragments /\ StreamChunk(r, FragmentOf(r))
    \/ \E r \in AllRuns : StreamFails(r)
    \/ \E r \in AllRuns : StreamEnd(r)

SpecConcurrent == Init /\ [][ConcurrentNext]_vars

\* two 'generateArticle' messages served together over the uploads directory,
\* the text service yielding empty streams
GatewayNext ==
    \/ \E c \in Clients, fs \in UploadSets : UploadFile(c, fs)
    \/ \E r \in AllRuns, len \in GatewayLengths :
           HandleGenerateArticle(r, len, ClientOf(r))
    \/ \E r \in AllRuns : GatewayStartRun(r)
    \/ \E r \in AllRuns : StreamCall(r)
    \/ \E r \in AllRuns : StreamCallFails(r)
    \/ \E r \in AllRuns : StreamFails(r)
    \/ \E r \in AllRuns : StreamEnd(r)
    \/ \E r \in AllRuns : GatewayReturn(r)

SpecGateway == Init /\ [][GatewayNext]_vars

HttpNext ==
    \/ \E c \in CreateRequests : Create(c.description, c.postText, c.imageUrl)
    \/ \E u \in HttpUpdates, id \in 1..(MaxPosts + 1),
          t \in UpdateTexts, img \in UpdateImages :
           UpdatePostRequest(u, id, t, img)
    \/ \E u \in HttpUpdates, id \in 1..(MaxPosts + 1), t \in UpdateTexts :
           SaveContentRequest(u, id, t)
    \/ \E u \in HttpUpdates, id \in 1..(MaxPosts + 1), img \in UpdateImages :
           RegenerateImageRequest(u, id, img)
    \/ \E u \in HttpUpdates : UpdatePostCalls(u)
    \/ \E u \in HttpUpdates : UpdateFindById(u)
    \/ \E u \in HttpUpdates, url \in GeneratedUrls : UpdateGenerateImage(u, url)
    \/ \E u \in HttpUpdates : UpdateGenerateImageFails(u)
    \/ \E u \in HttpUpdates : UpdateFindByIdAndUpdate(u)
    \/ \E u \in HttpUpdates : UpdateResponds(u)
    \/ \E g \in ImageRequests, d \in ImageDescriptions, url \in GeneratedUrls :
           GenerateImage(g, d, url)
    \/ \E g \in ImageRequests, d \in ImageDescriptions : GenerateImageFails(g, d)

SpecHttp == Init /\ [][HttpNext]_vars

\* an optional argument: missing or given
Optional(v) == {Undefined, v}
\* the headings a message may carry
HeadingsInputs ==
    {NoHeadings} \cup
    {[defined |-> TRUE, introduction |-> a, mainBody |-> b, conclusion |-> c] :
        a \in Optional(<<"I">>), b \in Optional(<<"M">>), c \in Optional(<<"C">>)}
\* the subheadings a message may carry
SubheadingsInputs ==
    {NoArray, ArrayOf(<<>>), ArrayOf(<<<<"s", "1">>>>),
     ArrayOf(<<<<"s", "1">>, <<"s", "2">>>>)}
\* messages that differ in the fields interpolated into the system messages
ScalarRequests ==
    {[callToAction |-> cta, toneOfVoice |-> tone, languageComplexity |-> lc,
      vocabularyLevel |-> vl, formalityLevel |-> fl, tempOfVoice |-> tv,
      keywords |-> kw, headings |-> NoHeadings, subheadings |-> NoArray,
      link |-> l] :
        cta \in Optional(<<"c">>), tone \in Optional(<<"t">>),
        lc \in Optional(<<"l">>), vl \in Optional(<<"v">>),
        fl \in Optional(<<"f">>), tv \in Optional(<<"p">>),
        kw \in {NoArray, ArrayOf(<<<<"k", "1">>, <<"k", "2">>>>)},
        l \in Optional(<<"u">>)}
\* messages that differ in the fields interpolated into the stage instructions
StructureRequests ==
    {[NoData EXCEPT !.headings = h, !.subheadings = s, !.link = l] :
        h \in HeadingsInputs, s \in SubheadingsInputs, l \in Optional(<<"u">>)}
Requests == ScalarRequests \cup StructureRequests
\* the sets of fields the POST /upload before the message may carry
PromptUploadSets == (SUBSET AuxFields) \ {{}}
\* the articleLength of the message: BODY iterations at i = 0, 2 and 4
PromptLengths == {<<"6">>}

\* one 'generateArticle' message with optional fields drawn from Requests,
\* after uploads of any of the auxiliary texts, the text service yielding
\* empty streams
PromptInit ==
    /\ GenInit /\ PostInit /\ EdgeInit
    /\ data \in {[r \in AllRuns |-> IF r \in Runs THEN q ELSE NoData] :
                    q \in Requests}
    /\ connection = [c \in Clients |-> NoConnection]

PromptNext ==
    \/ \E r \in Runs, fs \in PromptUploadSets :
           gw[r].pc = "idle" /\ UploadFile(ClientOf(r), fs)
    \/ \E r \in Runs, len \in PromptLengths :
           HandleGenerateArticle(r, len, ClientOf(r))
    \/ \E r \in Runs : GatewayStartRun(r)
    \/ \E r \in Runs : StreamCall(r)
    \/ \E r \in Runs : StreamEnd(r)

SpecPrompt == PromptInit /\ [][PromptNext]_vars

\* the articleLength of the message of a run whose client may disconnect
DisconnectLengths == {<<"4">>}

\* one run started by a message of a connected client, whose socket may be
\* disconnected at any time
DisconnectNext ==
    \/ \E c \in Clients : HandleConnection(c)
    \/ \E c \in Clients : HandleDisconnect(c)
    \/ \E r \in Runs, len \in DisconnectLengths :
           /\ connection[ClientOf(r)].state = "open"
           /\ StartRun(r, len, ClientOf(r))
    \/ \E r \in Runs : StreamCall(r)
    \/ \E r \in Runs : StreamCallFails(r)
    \/ \E r \in Runs, f \in Fragments : StreamChunk(r, f)
    \/ \E r \in Runs : StreamFails(r)
    \/ \E r \in Runs : StreamEnd(r)

SpecDisconnect == Init /\ [][DisconnectNext]_vars

\* the articleLength values of a message, which nothing validates
FairLengths == ArticleLengthInputs \cup {InfinityText}

\* streamChunks of a run that has made MaxCalls calls: the call is made as
\* before; of the calls past MaxCalls the log keeps the latest, in place
\* MaxCalls + 1
StreamCallUncounted(r) ==
    /\ run[r].pc \in Stages
    /\ run[r].stream = 0
    /\ Len(textCalls) >= MaxCalls
    /\ textCalls' = SubSeq(textCalls, 1, MaxCalls) \o
           <<[run |-> r, stage |-> run[r].pc,
              input |-> InputText(run[r].pc, run[r].i),
              instruction |-> InstructionText(run[r].pc, run[r].i, data[r]),
              context |-> GetMessageHistory(r, SessionId),
              produced |-> <<>>, status |-> "open"]>>
    /\ run' = [run EXCEPT ![r].stream = MaxCalls + 1]
    /\ UNCHANGED <<sockets, postVars, uploads, edgeVars>>

\* the stream of a call past MaxCalls ends: control moves on as in StreamEnd;
\* the turn is not added to the history kept and, in a loop whose guard no
\* i makes false, i is not counted further
StreamEndUncounted(r) ==
    /\ run[r].stream = MaxCalls + 1
    /\ textCalls[run[r].stream].status = "open"
    /\ textCalls' = [textCalls EXCEPT ![run[r].stream].status = "ended"]
    /\ LET next == NextStage(run[r].pc, run[r].i, run[r].postHeadings)
       IN  /\ run' = [run EXCEPT
                        ![r].stream = 0,
                        ![r].i = IF run[r].postHeadings.inf THEN @ ELSE next[2],
                        ![r].pc = IF next[1] = "return" THEN "done" ELSE next[1],
                        ![r].result = IF next[1] = "return"
                                      THEN [response |-> ResponseLiteral]
                                      ELSE @]
           /\ uploads' = IF next[1] = "return" THEN NoFiles ELSE uploads
           /\ uploaded' = IF next[1] = "return"
                          THEN [uploaded EXCEPT ![run[r].client] = {}]
                          ELSE uploaded
    /\ UNCHANGED <<sockets, postVars, gw, http, msgVars>>

\* one run for any articleLength; the stream calls are logged up to MaxCalls
FairNext ==
    \/ \E r \in Runs, len \in FairLengths : StartRun(r, len, ClientOf(r))
    \/ \E r \in Runs : Len(textCalls) < MaxCalls /\ StreamCall(r)
    \/ \E r \in Runs : Len(textCalls) < MaxCalls /\ StreamCallFails(r)
    \/ \E r \in Runs : StreamCallUncounted(r)
    \/ \E r \in Runs, f \in Fragments : StreamChunk(r, f)
    \/ \E r \in Runs : StreamFails(r)
    \/ \E r \in Runs : run[r].stream <= MaxCalls /\ StreamEnd(r)
    \/ \E r \in Runs : StreamEndUncounted(r)

\* the handler goes on when an await settles (its next stream call is made),
\* and every stream call of the text service eventually ends or fails
Fairness ==
    \A r \in Runs :
        /\ WF_vars(\/ Len(textCalls) < MaxCalls
                      /\ (StreamCall(r) \/ StreamCallFails(r))
                   \/ StreamCallUncounted(r))
        /\ WF_vars(\/ run[r].stream <= MaxCalls /\ StreamEnd(r)
                   \/ StreamEndUncounted(r)
                   \/ StreamFails(r))

SpecFair == Init /\ [][FairNext]_vars /\ Fairness

(***************************************************************************)
(* Properties of the generation run.                                       *)
(***************************************************************************)
\* the stream calls run r has made, in order
CallsOf(r) == SelectSeq(textCalls, LAMBDA c : c.run = r)
\* their stages
StagesOf(r) == [k \in 1..Len(CallsOf(r)) |-> CallsOf(r)[k].stage]
\* the number of BODY-stage calls of run r
BodyCalls(r) == Len(SelectSeq(CallsOf(r), LAMBDA c : c.stage = BODY))
\* the number of calls of run r for stage s
StageCalls(r, s) == Len(SelectSeq(CallsOf(r), LAMBDA c : c.stage = s))
\* the output of each call of run r, in order
OutputsOf(r) == [k \in 1..Len(CallsOf(r)) |-> Flatten(CallsOf(r)[k].produced)]
\* the fragments the calls of run r yielded, in order
RECURSIVE ProducedBy(_)
ProducedBy(calls) ==
    IF calls = <<>> THEN <<>> ELSE Head(calls).produced \o ProducedBy(Tail(calls))
\* ceil(n / 2), for n >= 0
CeilHalf(n) == (n + 1) \div 2

\* C1: a run that completes for an articleLength of the enum {4,5,6,8,10} has
\* issued exactly ceil((articleLength - 2) / 2) BODY-stage stream calls.
C1_BodyCallsCeil ==
    \A r \in Runs :
        (run[r].pc = "done" /\ run[r].articleLength \in ArticleLengthEnum)
        => BodyCalls(r) = CeilHalf(run[r].postHeadings.v - 2)

\* C2: the string a completed run returns as the full article is the
\* concatenation, in emission order, of the fragments it emitted.
C2_ReturnIsEmittedText ==
    \A r \in Runs :
        run[r].pc = "done"
        => run[r].result.response = Flatten(sockets[run[r].client])

\* C3: a completed run for articleLength "4" has issued exactly the four calls
\* INTRODUCTION, BODY, CONCLUSION, REFERENCES, in that order, and its final
\* text is the concatenation of the four stage outputs in that order.
C3_FourStageRun ==
    \A r \in Runs :
        (run[r].pc = "done" /\ run[r].articleLength = <<"4">>)
        => /\ StagesOf(r) = <<INTRODUCTION, BODY, CONCLUSION, REFERENCES>>
           /\ run[r].result.response = Flatten(OutputsOf(r))

\* what the code does where C1 to C3 say otherwise: the loop runs for
\* i = 0, 2, ... while i <= articleLength - 2, that is floor((L - 2) / 2) + 1
\* times, and the text accumulated in fullArticle (not the returned value) is
\* the concatenation of the emitted fragments
BodyCallsOfLoop ==
    \A r \in Runs :
        (run[r].pc = "done" /\ run[r].articleLength \in ArticleLengthEnum)
        => BodyCalls(r) = ((run[r].postHeadings.v - 2) \div 2) + 1

FullArticleIsEmittedText ==
    \A r \in Runs :
        run[r].pc /= "idle"
        => /\ run[r].fullArticle = Flatten(sockets[run[r].client])
           /\ run[r].pc = "done" => run[r].result.response = ResponseLiteral

\* one stage may directly follow another in a run
MayFollow(a, b) ==
    \/ a = INTRODUCTION /\ b \in {BODY, CONCLUSION}
    \/ a = BODY /\ b \in {BODY, CONCLUSION}
    \/ a = CONCLUSION /\ b = REFERENCES

\* C10: within a run the stage calls are issued in the order INTRODUCTION,
\* the BODY iterations, CONCLUSION, REFERENCES, never backward; each stage
\* (each BODY iteration) has exactly one stream call; and a call is issued
\* only when every earlier stream of the run has ended and all its fragments
\* have been forwarded to the client.
C10_StageOrder ==
    \A r \in Runs :
        LET calls == CallsOf(r)
            n == Len(calls)
        IN  /\ n > 0 => calls[1].stage = INTRODUCTION
            /\ \A k \in 1..(n - 1) :
                   /\ MayFollow(calls[k].stage, calls[k + 1].stage)
                   /\ calls[k].status = "ended"
            /\ \A s \in {INTRODUCTION, CONCLUSION, REFERENCES} :
                   StageCalls(r, s) <= 1
            /\ run[r].pc = "done" =>
                   /\ \A s \in {INTRODUCTION, CONCLUSION, REFERENCES} :
                          StageCalls(r, s) = 1
                   /\ BodyCalls(r) = run[r].i \div 2
                   /\ Len(run[r].messageHistory) = n
            /\ run[r].pc /= "idle" =>
                   ProducedBy(calls) = sockets[run[r].client]

\* a run has completed with two or more BODY iterations and fragments
\* forwarded from more than one stage
C10_Witness ==
    \E r \in Runs :
        /\ run[r].pc = "done"
        /\ BodyCalls(r) >= 2
        /\ Cardinality({k \in 1..Len(CallsOf(r)) :
                            CallsOf(r)[k].produced /= <<>>}) >= 2

\* C11: if the stream call of a stage fails, at its start or while its
\* fragments are consumed, the run makes no further stream call (none for a
\* later stage, none again for the failed one), no Post is created, and
\* generateTextByUserDescription rejects: it has an error and no result.
C11_FailureAborts ==
    \A r \in Runs :
        LET calls == CallsOf(r)
            n == Len(calls)
        IN  /\ \A k \in 1..n :
                   calls[k].status = "failed"
                   => /\ k = n
                      /\ run[r].pc = "failed"
                      /\ run[r].stream = 0
                      /\ run[r].error
                      /\ run[r].result = Undefined
            /\ run[r].pc = "failed" => (n >= 1 /\ calls[n].status = "failed")
            /\ posts = <<>>
            /\ created = <<>>

\* a run has failed in the stream of a BODY stage after a fragment of that
\* stream had been emitted
C11_Witness ==
    \E r \in Runs :
        /\ run[r].pc = "failed"
        /\ CallsOf(r)[Len(CallsOf(r))].stage = BODY
        /\ CallsOf(r)[Len(CallsOf(r))].produced /= <<>>

\* C12: the messages emitted to the subscriber of a run are exactly the
\* fragments the text service yielded to the run, one message per fragment
\* with the fragment as payload, in the order received; there is no other
\* message, to this or another connection, also once the run has completed
\* or failed.
C12_OneMessagePerFragment ==
    \A r \in Runs :
        run[r].pc /= "idle"
        => /\ Len(sockets[run[r].client]) = Len(ProducedBy(CallsOf(r)))
           /\ \A k \in 1..Len(sockets[run[r].client]) :
                  sockets[run[r].client][k] = ProducedBy(CallsOf(r))[k]
           /\ \A c \in Clients \ {run[r].client} : sockets[c] = <<>>

\* a run has failed after fragments of two kinds were emitted, and the
\* fragments are all its subscriber has got
C12_Witness ==
    \E r \in Runs :
        /\ run[r].pc = "failed"
        /\ sockets[run[r].client] = << <<"b", "c">>, <<"a">> >>

\* the (input, aggregated output) turns of the first n of `calls`
TurnsOf(calls, n) ==
    [k \in 1..n |-> [input |-> calls[k].input,
                     output |-> Flatten(calls[k].produced)]]

\* C17: the n-th stream call of a run gets as context exactly the turns
\* (input, aggregated output) of the run's n-1 earlier calls, in order; the
\* session holds the turns of the calls whose stream has ended, and of no
\* other, in call order.
C17_ContextIsEarlierTurns ==
    \A r \in Runs :
        LET calls == CallsOf(r)
            ended == {k \in 1..Len(calls) : calls[k].status = "ended"}
        IN  /\ \A n \in 1..Len(calls) :
                   calls[n].context = TurnsOf(calls, n - 1)
            /\ ended = 1..Cardinality(ended)
            /\ run[r].messageHistory = TurnsOf(calls, Cardinality(ended))

\* the third call of a run was given two turns, the first with an output of
\* two fragments
C17_Witness ==
    \E r \in Runs :
        /\ Len(CallsOf(r)) >= 3
        /\ Len(CallsOf(r)[3].context) = 2
        /\ Len(CallsOf(r)[1].produced) = 2
        /\ CallsOf(r)[3].context[1].output = Flatten(CallsOf(r)[1].produced)

\* the fragments received by run r and not yet emitted to its client
Unforwarded(r) == Len(ProducedBy(CallsOf(r))) - Len(sockets[run[r].client])

\* C18: a fragment received from the text service is forwarded to the
\* subscriber before the next is awaited: whenever a stream call has
\* received a fragment, the same step emits it to the run's connection as
\* its latest message, so no two received fragments are ever unforwarded and
\* the order of emission is the order of receipt.
C18_ForwardedOnReceipt ==
    [][\A k \in 1..Len(textCalls) :
          LET c == run[textCalls[k].run].client
          IN  /\ textCalls'[k].produced /= textCalls[k].produced
                 => /\ Len(textCalls'[k].produced) = Len(textCalls[k].produced) + 1
                    /\ sockets'[c] =
                           Append(sockets[c],
                                  textCalls'[k].produced[Len(textCalls'[k].produced)])
              /\ Unforwarded(textCalls[k].run)' < 2]_vars

\* a stream has yielded two fragments, both emitted
C18_Witness ==
    \E k \in 1..Len(textCalls) :
        /\ Len(textCalls[k].produced) = 2
        /\ textCalls[k].produced[1] /= textCalls[k].produced[2]
        /\ sockets[run[textCalls[k].run].client] = textCalls[k].produced

(***************************************************************************)
(* Properties of the Post store.                                           *)
(***************************************************************************)
\* the image service calls made for update call u, in order
ImageCallsBy(u) == SelectSeq(imageCalls, LAMBDA c : c.by = u)
\* update call u loaded an existing Post and has settled
SettledOnPost(u) ==
    \/ upd[u].pc = "done"
    \/ upd[u].pc = "rejected" /\ upd[u].error /= NotFoundError
\* this step is the findByIdAndUpdate of update call u
WriteStep(u) == upd[u].pc = "findByIdAndUpdate" /\ upd'[u].pc = "done"

C5_TextRetained ==
    [][\A u \in UpdateCalls :
          (/\ upd'[u].pc /= upd[u].pc
           /\ upd'[u].restDto.text = Undefined
           /\ Exists(upd'[u].id))
          => posts'[upd'[u].id].text = posts[upd'[u].id].text]_vars

\* an image-regenerating update without text has written a Post whose text
\* another update had set to "X", and the text is still "X"
C5_Witness ==
    \E u \in UpdateCalls :
        /\ upd[u].pc = "done"
        /\ upd[u].restDto.text = Undefined
        /\ Truthy(upd[u].restDto.image)
        /\ upd[u].result.text = <<"X">>

\* C6: an update whose request carries text X and no (or a falsy) image sets
\* the stored text to exactly X, leaves the stored image unchanged and does
\* not invoke the image generator.  (It holds in SpecPostSerial: the stale
\* image is written back only across another call's write.)
C6_TextOnlyUpdate ==
    [][\A u \in UpdateCalls :
          (/\ WriteStep(u)
           /\ upd[u].restDto.text /= Undefined
           /\ ~Truthy(upd[u].restDto.image))
          => /\ posts'[upd[u].id].text = upd[u].restDto.text
             /\ posts'[upd[u].id].image = posts[upd[u].id].image
             /\ \A k \in 1..Len(imageCalls') : imageCalls'[k].by /= u]_vars

\* C7: an update whose id matches no stored Post fails with the not-found
\* error, does not invoke the image generator and writes nothing to the
\* store, at the lookup and ever after.
C7_UnknownIdRejected ==
    [][\A u \in UpdateCalls :
          /\ (/\ upd[u].pc = "findById"
              /\ upd'[u].pc /= upd[u].pc
              /\ ~Exists(upd[u].id))
             => /\ upd'[u].pc = "rejected"
                /\ upd'[u].error = NotFoundError
                /\ posts' = posts
                /\ imageCalls' = imageCalls
          /\ upd[u].pc = "rejected" => upd'[u].pc = "rejected"]_vars

\* an update that asked for a new image was rejected for an unknown id
C7_Witness ==
    \E u \in UpdateCalls :
        /\ upd[u].pc = "rejected"
        /\ upd[u].error = NotFoundError
        /\ Truthy(upd[u].restDto.image)
        /\ ~Exists(upd[u].id)

C19_NoLostUpdate ==
    \A u, v \in UpdateCalls :
        (/\ u /= v
         /\ upd[u].pc = "done"
         /\ upd[v].pc = "done"
         /\ upd[u].id = upd[v].id)
        => /\ (Truthy(upd[v].restDto.image) /\ ~Truthy(upd[u].restDto.image))
              => posts[upd[u].id].image = upd[v].newImage
           /\ (upd[u].restDto.text /= Undefined /\ upd[v].restDto.text = Undefined)
              => posts[upd[u].id].text = upd[u].restDto.text

(***************************************************************************)
(* Properties of the entry points.                                         *)
(***************************************************************************)
\* C13: when update fails for an unknown Post id, every entry point built on
\* it (AiController.updatePost, AppController.saveContent and
\* regenerateImage) answers its caller with an error, never with a normal
\* result.
C13_UnknownIdPropagates ==
    \A u \in UpdateCalls :
        (/\ http[u].pc = "responded"
         /\ upd[u].pc = "rejected"
         /\ upd[u].error = NotFoundError)
        => http[u].response.threw

\* what the code does where C13 says otherwise: AiController.updatePost
\* answers a failed update with an error, the AppController routes answer it
\* with the empty page
UpdatePostPropagates ==
    \A u \in UpdateCalls :
        (http[u].pc = "responded" /\ upd[u].pc = "rejected")
        => IF http[u].entry = "updatePost"
           THEN http[u].response.threw /\ http[u].response.error = UpdateFailed
           ELSE ~http[u].response.threw /\ http[u].response.body = EmptyPage

\* C14: when a generation run fails, the generation endpoint
\* (handleGenerateArticle) catches the failure and returns normally: its call
\* never settles as a rejection.
C14_GenerationFailureCaught ==
    \A r \in AllRuns :
        (run[r].pc = "failed" /\ gw[r].pc \notin {"idle", "loaded"})
        => gw[r].pc = "resolved"

\* C15: a call of generateAiImage calls the image service at most once (once
\* when the prompt could be composed, not at all otherwise); when composing
\* or the service fails the call has no value and its caller gets an error
\* (update rejects, POST /generate-image answers with an error), and no
\* caller makes a second call.
C15_ImageFailureRejects ==
    /\ \A k \in 1..Len(imageCalls) :
          LET call == imageCalls[k]
          IN  /\ (call.prompt = Undefined)
                 <=> ~ComposeImagePrompt(call.description).ok
              /\ call.prompt = Undefined => call.answer = Null
              /\ call.answer = Null
                 => IF call.by \in UpdateCalls
                    THEN /\ upd[call.by].pc = "rejected"
                         /\ upd[call.by].error = ImageError
                         /\ upd[call.by].newImage = Null
                    ELSE /\ http[call.by].response.threw
                         /\ http[call.by].response.error = ImageFailed
                         /\ http[call.by].response.body = Null
    /\ \A h \in HttpCalls : Len(ImageCallsBy(h)) <= 1

\* an update was rejected because the prompt could not be composed from the
\* stored description, and a POST /generate-image was answered with an error
\* after the image service had been called with a composed prompt
C15_Witness ==
    /\ \E u \in UpdateCalls :
          /\ upd[u].pc = "rejected"
          /\ upd[u].error = ImageError
          /\ ImageCallsBy(u)[1].prompt = Undefined
    /\ \E g \in ImageRequests :
          /\ http[g].pc = "responded"
          /\ http[g].response.threw
          /\ ImageCallsBy(g)[1].prompt /= Undefined

\* the characters of a text
CharsOf(s) == {s[x] : x \in 1..Len(s)}

\* C16: for two runs in progress together, the context given to a stream call
\* of one run holds turns of that run only: each is the turn of the run's own
\* earlier call at that place and none holds text the other run produced.
C16_NoCrossRunContext ==
    \A k \in 1..Len(textCalls) :
        LET call == textCalls[k]
            own == CallsOf(call.run)
        IN  \A j \in 1..Len(call.context) :
                /\ j < Len(own)
                /\ call.context[j].input = own[j].input
                /\ call.context[j].output = Flatten(own[j].produced)
                /\ \A q \in AllRuns \ {call.run} :
                       CharsOf(call.context[j].output) \cap CharsOf(FragmentOf(q)) = {}

\* a call of the first run was given a turn with text after a call of the
\* second run had been given a turn with text
C16_Witness ==
    \E j, k \in 1..Len(textCalls) :
        /\ j < k
        /\ textCalls[j].run = "r2"
        /\ textCalls[k].run = "r1"
        /\ \E x \in 1..Len(textCalls[j].context) :
               textCalls[j].context[x].output /= <<>>
        /\ \E x \in 1..Len(textCalls[k].context) :
               textCalls[k].context[x].output /= <<>>

\* C20: runs in progress together share nothing: the auxiliary texts a run
\* is given are the files its own caller uploaded for it, whatever another
\* caller uploads and whenever another run starts or finishes.
C20_RunsShareNothing ==
    \A r \in AllRuns :
        gw[r].pc /= "idle"
        => gw[r].files =
               [f \in AuxFields |->
                   IF f \in gw[r].own THEN FileText(gw[r].client) ELSE Undefined]

(***************************************************************************)
(* Properties of the uploads directory over consecutive runs.              *)
(***************************************************************************)
\* the step ends run r: its last stage resolves or a stage fails
Terminates(r) ==
    /\ run[r].pc \in Stages
    /\ run'[r].pc \in {"done", "failed"}

\* C21: the uploaded texts are consumed once: when a run that was given
\* uploaded texts ends, the uploads directory is empty, and a handler gets
\* exactly what is in the directory when it loads, so a later run receives
\* none of them unless they are uploaded again.
C21_ConsumedOnce ==
    [][\A r \in AllRuns :
          /\ (Terminates(r) /\ gw[r].files /= NoFiles) => uploads' = NoFiles
          /\ (gw[r].pc = "idle" /\ gw'[r].pc = "loaded")
             => gw'[r].files = uploads]_vars

\* what the code does: the directory is emptied when a run returns, and only
\* then
ClearedOnReturn ==
    [][\A r \in AllRuns :
          Terminates(r)
          => uploads' = IF run'[r].pc = "done" THEN NoFiles ELSE uploads]_vars

(***************************************************************************)
(* Properties of the composed prompts.                                     *)
(***************************************************************************)
\* the composed text holds a piece (wording or value) of the clause for
\* argument `field`
HasClause(text, field) == \E k \in 1..Len(text) : text[k].field = field
\* the value interpolated into the clause for `field`, where text has it
ClauseValues(text, field) ==
    {text[k].text : k \in {j \in 1..Len(text) :
                              text[j].field = field /\ text[j].kind = "value"}}
\* call k of calls is the first BODY-stage call
FirstBody(calls, k) ==
    /\ calls[k].stage = BODY
    /\ \A j \in 1..(k - 1) : calls[j].stage /= BODY

Given(r, h) == data[r].headings.defined /\ h /= Undefined

\* C23: each heading clause is in the instruction of its own stage only and
\* exactly when its heading is given: the introduction heading in the
\* INTRODUCTION instruction, the mainBody heading in the first BODY
\* instruction, the conclusion heading in the CONCLUSION instruction.
C23_HeadingsForOwnStage ==
    \A r \in Runs :
        \A k \in 1..Len(CallsOf(r)) :
            LET call == CallsOf(r)[k]
                h == data[r].headings
            IN  /\ HasClause(call.instruction, "headings.introduction")
                   <=> (call.stage = INTRODUCTION /\ Given(r, h.introduction))
                /\ HasClause(call.instruction, "headings.mainBody")
                   <=> (FirstBody(CallsOf(r), k) /\ Given(r, h.mainBody))
                /\ HasClause(call.instruction, "headings.conclusion")
                   <=> (call.stage = CONCLUSION /\ Given(r, h.conclusion))

\* what the code does: the three clauses are composed exactly when
\* headings.introduction is given, whatever mainBody and conclusion are, and
\* the mainBody clause is in the instruction of every BODY iteration
HeadingsFollowIntroduction ==
    \A r \in Runs :
        \A k \in 1..Len(CallsOf(r)) :
            LET call == CallsOf(r)[k]
                h == data[r].headings
            IN  /\ HasClause(call.instruction, "headings.introduction")
                   <=> (call.stage = INTRODUCTION /\ Given(r, h.introduction))
                /\ HasClause(call.instruction, "headings.mainBody")
                   <=> (call.stage = BODY /\ Given(r, h.introduction))
                /\ HasClause(call.instruction, "headings.conclusion")
                   <=> (call.stage = CONCLUSION /\ Given(r, h.introduction))
                /\ HasClause(call.instruction, "headings.mainBody")
                   => ClauseValues(call.instruction, "headings.mainBody")
                      = {ToText(h.mainBody)}

\* the optional argument `field` of run r is absent
Absent(r, field) ==
    CASE field \in {"callToAction", "toneOfVoice", "languageComplexity",
                    "vocabularyLevel", "formalityLevel", "tempOfVoice", "link"}
           -> data[r][field] = Undefined
      [] field \in {"keywords", "subheadings"} -> ~data[r][field].defined
      [] field = "headings.introduction" -> ~Given(r, data[r].headings.introduction)
      [] field = "headings.mainBody" -> ~Given(r, data[r].headings.mainBody)
      [] field = "headings.conclusion" -> ~Given(r, data[r].headings.conclusion)
      [] field \in AuxFields -> gw[r].files[field] = Undefined

\* the optional arguments of a run
OptionalFields ==
    {"callToAction", "toneOfVoice", "languageComplexity", "vocabularyLevel",
     "formalityLevel", "tempOfVoice", "keywords", "link",
     "headings.introduction", "headings.mainBody", "headings.conclusion",
     "subheadings"} \cup AuxFields

\* the composed texts of run r so far: the system messages and the
\* instructions of its stage calls
ComposedTexts(r) ==
    {run[r].prompt} \cup {CallsOf(r)[k].instruction : k \in 1..Len(CallsOf(r))}

\* C24: for every optional argument that is absent, no composed text of the
\* run (system messages, stage instructions) holds a piece of its clause:
\* neither the fixed wording nor a value such as 'undefined'.
C24_AbsentFieldNoClause ==
    \A r \in Runs :
        run[r].pc /= "idle"
        => \A field \in OptionalFields :
               Absent(r, field)
               => \A text \in ComposedTexts(r) : ~HasClause(text, field)

\* what the code does: the clauses of link, headings.introduction,
\* subheadings and the auxiliary texts are conditional and left out when the
\* argument is absent; those of callToAction, keywords and the five
\* characteristics are part of the system messages whatever the argument is,
\* with the text 'undefined' for an absent one
AbsentFieldAsComposed ==
    \A r \in Runs :
        run[r].pc /= "idle"
        => /\ \A field \in {"link", "headings.introduction", "subheadings"}
                            \cup AuxFields :
                  Absent(r, field)
                  => \A text \in ComposedTexts(r) : ~HasClause(text, field)
           /\ \A field \in {"callToAction", "toneOfVoice", "languageComplexity",
                            "vocabularyLevel", "formalityLevel", "tempOfVoice",
                            "keywords"} :
                  /\ HasClause(run[r].prompt, field)
                  /\ Absent(r, field)
                     => ClauseValues(run[r].prompt, field) = {UndefinedText}

(***************************************************************************)
(* Properties of the image prompt.                                         *)
(***************************************************************************)
\* the image prompt with the description in it as it was given
VerbatimImagePrompt(description) ==
    ImagePromptHead \o description \o ImagePromptTail

\* C25: every call of generateAiImage, whatever braces its description
\* holds, reaches the image service with a prompt that holds the description
\* as it was given.
C25_DescriptionVerbatim ==
    \A k \in 1..Len(imageCalls) :
        /\ imageCalls[k].prompt /= Undefined
        /\ imageCalls[k].prompt = VerbatimImagePrompt(imageCalls[k].description)

\* what the code does: a description without a brace is sent as it was given;
\* one with a brace either makes the call fail before the image service is
\* reached or is sent altered
BraceFreeVerbatim ==
    \A k \in 1..Len(imageCalls) :
        LET call == imageCalls[k]
            braces == {j \in 1..Len(call.description) :
                          call.description[j] \in {"{", "}"}}
        IN  IF braces = {}
            THEN call.prompt = VerbatimImagePrompt(call.description)
            ELSE call.prompt /= VerbatimImagePrompt(call.description)

(***************************************************************************)
(* Properties of a run whose client disconnects.                           *)
(***************************************************************************)
\* the BODY iterations of a run with this postHeadings that completes
LoopIterations(postHeadings) ==
    IF LoopCond(0, postHeadings) THEN ((postHeadings.v - 2) \div 2) + 1 ELSE 0

\* C26: a run whose client's socket has been disconnected is not cancelled:
\* while it is in the pipeline its next step (the stream call of the stage,
\* the emission of the next fragment, the end of the stream) can be taken
\* as before, it fails only by a failed stream call, and when it completes
\* it has issued the calls of all its stages.
C26_NoCancellation ==
    \A r \in Runs :
        (run[r].pc /= "idle" /\ connection[run[r].client].state = "closed")
        => LET calls == CallsOf(r)
               n == Len(calls)
           IN  /\ run[r].pc \in Stages \cup {"done", "failed"}
               /\ run[r].pc = "failed" => (n > 0 /\ calls[n].status = "failed")
               /\ run[r].pc = "done"
                  => /\ \A s \in {INTRODUCTION, CONCLUSION, REFERENCES} :
                            StageCalls(r, s) = 1
                     /\ BodyCalls(r) = LoopIterations(run[r].postHeadings)
               /\ (run[r].pc \in Stages /\ run[r].stream = 0)
                  => ENABLED StreamCall(r)
               /\ run[r].stream /= 0
                  => /\ ENABLED StreamEnd(r)
                     /\ Len(sockets[run[r].client]) < MaxFragments
                        => \A f \in Fragments : ENABLED StreamChunk(r, f)

\* a run that completed though its client was disconnected during the
\* INTRODUCTION stream: the later stage calls were issued and fragments were
\* emitted to the closed socket
C26_Witness ==
    \E r \in Runs :
        /\ run[r].pc = "done"
        /\ connection[run[r].client].state = "closed"
        /\ connection[run[r].client].calls = 1
        /\ Len(CallsOf(r)) = 5
        /\ Len(sockets[run[r].client]) > connection[run[r].client].emitted

(***************************************************************************)
(* Properties of the run for an articleLength that is no section count.    *)
(***************************************************************************)
\* articleLength absent, empty, numerically below 2, not numeric
ShortLengths == {Undefined, <<>>, <<"1">>, <<"x">>}

\* C27: a run whose articleLength is absent, not numeric or below 2 issues no
\* BODY call and is not rejected for it: it fails only with a failed stream
\* call, and when it completes it has issued INTRODUCTION, CONCLUSION and
\* REFERENCES, in that order, and returned.
C27_NoBodyForShortLength ==
    \A r \in Runs :
        (run[r].pc /= "idle" /\ run[r].articleLength \in ShortLengths)
        => LET calls == CallsOf(r)
               n == Len(calls)
           IN  /\ BodyCalls(r) = 0
               /\ n <= 3
               /\ \A k \in 1..n :
                      calls[k].stage = <<INTRODUCTION, CONCLUSION, REFERENCES>>[k]
               /\ run[r].pc = "failed" => (n > 0 /\ calls[n].status = "failed")
               /\ run[r].pc = "done"
                  => /\ n = 3
                     /\ ~run[r].error
                     /\ run[r].result.response = ResponseLiteral
               /\ (run[r].pc \in Stages /\ run[r].stream = 0)
                  => ENABLED StreamCall(r)

\* a completed run for a non-numeric articleLength
C27_Witness ==
    \E r \in Runs :
        /\ run[r].pc = "done"
        /\ run[r].articleLength = <<"x">>
        /\ StagesOf(r) = <<INTRODUCTION, CONCLUSION, REFERENCES>>

(***************************************************************************)
(* Properties of an update whose image generation fails.                   *)
(***************************************************************************)
\* this step is the failure of generateAiImage in update call u
ImageFailureStep(u) ==
    upd[u].pc = "generateAiImage" /\ upd'[u].pc = "rejected"

\* C28: when generateAiImage fails in an update, the update rejects with the
\* image error in that step, which writes nothing to the store, and the call
\* takes no step after it: the only steps that change a stored Post are the
\* findByIdAndUpdate of calls that have not rejected.
C28_FailedImageWritesNothing ==
    [][\A u \in UpdateCalls :
          /\ ImageFailureStep(u)
             => /\ posts' = posts
                /\ upd'[u].error = ImageError
                /\ upd'[u].newImage = Null
                /\ upd'[u].result = Null
          /\ upd[u].pc = "rejected" => upd'[u] = upd[u]
          /\ (Exists(upd[u].id) /\ posts'[upd[u].id] /= posts[upd[u].id])
             => \E v \in UpdateCalls : WriteStep(v)]_vars

\* an update with new text and a truthy image whose image generation failed,
\* no other update having been called: the Post is as the update loaded it
C28_Witness ==
    \E u \in UpdateCalls :
        /\ upd[u].pc = "rejected"
        /\ upd[u].error = ImageError
        /\ upd[u].restDto.text = <<"X">>
        /\ Truthy(upd[u].restDto.image)
        /\ posts[upd[u].id] = upd[u].blogPost
        /\ posts[upd[u].id].text /= <<"X">>
        /\ \A v \in UpdateCalls \ {u} : upd[v].pc = "idle"

(***************************************************************************)
(* Properties of the connections under concurrent runs.                    *)
(***************************************************************************)
\* the stream calls of the runs started for client c, in order
CallsFor(c) ==
    SelectSeq(textCalls, LAMBDA call : run[call.run].client = c)

\* C29: whatever the interleaving of two runs started by different clients,
\* what has been emitted to a client's connection is exactly the fragments
\* the calls of that client's own run yielded, in order: no fragment of a run
\* is emitted to the other connection, none is emitted to both.
C29_FragmentsToOwnConnection ==
    /\ \A c \in Clients : sockets[c] = ProducedBy(CallsFor(c))
    /\ \A r \in AllRuns :
           run[r].pc /= "idle"
           => \A c \in Clients \ {run[r].client} :
                  \A k \in 1..Len(sockets[c]) : sockets[c][k] /= FragmentOf(r)

\* both clients have a run in progress and each has been emitted a fragment
\* while the other's stream was open
C29_Witness ==
    /\ \A c \in Clients : sockets[c] /= <<>>
    /\ \A r \in AllRuns :
           /\ run[r].stream /= 0
           /\ textCalls[run[r].stream].produced /= <<>>

(***************************************************************************)
(* Termination of a run.                                                   *)
(***************************************************************************)
\* run r has terminated: completed after REFERENCES or aborted by a failure
Terminated(r) == run[r].pc \in {"done", "failed"}

\* C30: when every stream call eventually ends or fails, every run that has
\* started eventually terminates, whatever its articleLength (and so issues
\* finitely many stage calls).
C30_RunTerminates ==
    \A r \in Runs : (run[r].pc /= "idle") ~> Terminated(r)

\* what the code does: a run whose Number(articleLength) is not Infinity
\* terminates, after at most 3 + LoopIterations stage calls
FiniteLengthTerminates ==
    \A r \in Runs :
        (run[r].pc /= "idle" /\ ~run[r].postHeadings.inf) ~> Terminated(r)

FiniteLengthCalls ==
    \A r \in Runs :
        (run[r].pc /= "idle" /\ ~run[r].postHeadings.inf)
        => Len(CallsOf(r)) <= 3 + LoopIterations(run[r].postHeadings)

\* and a run for articleLength 'Infinity' never leaves the BODY loop but by a
\* failure: every BODY call that ends is followed by another
InfiniteLengthStaysInBody ==
    \A r \in Runs :
        run[r].postHeadings.inf
        => /\ run[r].pc \in {INTRODUCTION, BODY, "failed"}
           /\ \A k \in 2..Len(CallsOf(r)) : CallsOf(r)[k].stage = BODY

====
